---- MODULE Spec2Model ----
(***************************************************************************)
(* Model of the guardian detection engine (guardian.service.ts).           *)
(*                                                                         *)
(* Every block event invokes checkKeysIntersections once.  An invocation   *)
(* is an async function: it runs synchronously up to an await, and is      *)
(* resumed when every promise it awaits has been resolved.  The promises   *)
(* of the collaborators (registry, deposit, security, provider, transport) *)
(* are resolved or rejected by the environment in any order.               *)
(***************************************************************************)
EXTENDS Integers, Sequences, FiniteSets, TLC

(* ------------------------------ bounds -------------------------------- *)

\* number of block events delivered by the provider
MaxInv == 2

\* number of block references initOrWaitCachedContracts may fetch
MaxAttempts == 3

(* --------------------------- input domains ---------------------------- *)

Invocations == 1..MaxInv

\* answers of registryService.getNextSigningKeys(): ordered, may repeat a key
KeyLists ==
    { << >>, << "k1" >>, << "k1", "k2" >>, << "k2", "k1" >>,
      << "k2", "k2" >>, << "k1", "k2", "k3" >>, << "k3", "k1", "k3" >> }

\* answers of depositService.getAllDepositedPubKeys()
KeySets == { {}, {"k2"}, {"k1", "k3"}, {"k1", "k2", "k3"}, {"k4"} }

Roots == {"rootA", "rootB"}

OpIndexes == {5, 6}

\* blocks per re-signing period (guardian.constants, value as in the dedup example)
GUARDIAN_DEPOSIT_RESIGNING_BLOCKS == 100

\* block numbers inside one window, at its last block and at the next window's first
BlockNumbers ==
    { GUARDIAN_DEPOSIT_RESIGNING_BLOCKS + (GUARDIAN_DEPOSIT_RESIGNING_BLOCKS \div 2),
      2 * GUARDIAN_DEPOSIT_RESIGNING_BLOCKS - 1,
      2 * GUARDIAN_DEPOSIT_RESIGNING_BLOCKS }

ChainIds == {1, 999}

KAFKA_TOPIC == "topic"

NULL == [null |-> TRUE]

NoData == [kind |-> "none"]

\* payload of securityService.getPauseDepositData()
PauseDatas ==
    {[kind |-> "pause", blockNumber |-> 2 * GUARDIAN_DEPOSIT_RESIGNING_BLOCKS, signature |-> "sig"]}

\* payload of securityService.getDepositData(depositRoot, keysOpIndex)
DepositDataFor(depositRoot, keysOpIndex) ==
    [kind |-> "attest", depositRoot |-> depositRoot, keysOpIndex |-> keysOpIndex]

(* ------------------------------- state -------------------------------- *)

VARIABLES
    isCheckingKeysIntersections,  \* the single-flight flag
    lastContractsState,           \* last stored ContractsState, or NULL
    pc,                           \* position of each invocation of the handler
    awaiting,                     \* collaborator promises each invocation awaits
    local,                        \* local variables of each invocation
    calls,                        \* collaborator calls issued by each invocation
    published,                    \* transport.publish calls of each invocation
    pauseCall,                    \* the un-awaited pauseDeposits promise of each invocation
    logs,                         \* logger lines written by each invocation
    outcome,                      \* how each invocation's promise settled
    cmpFirst, cmpSecond, cmpResult \* arguments and result of a direct isSameContractsStates call

VARIABLES
    tempContractsCache,           \* re-pointable bindings: catalist, dsm, stakingRouter
    permanentContractsCache,      \* the deposit binding
    cachedDSMPrefixes,            \* the current prefix cache object
    initPc,                       \* position of initOrWaitCachedContracts
    attempts,                     \* block references fetched so far
    block,                        \* the block reference of the running attempt
    returned,                     \* the block the last completed call returned
    initAwaiting,                 \* prefix reads the Promise.all of line 159 awaits
    fetches,                      \* prefix reads in flight
    cacheAtStart,                 \* tempContractsCache when the running attempt began
    failedStep,                   \* the step at which the last attempt failed
    getterResult                  \* getter and result of a direct getter call

cmpVars == << cmpFirst, cmpSecond, cmpResult >>

guardianVars == << isCheckingKeysIntersections, lastContractsState, pc, awaiting, local,
                   calls, published, pauseCall, logs, outcome, cmpFirst, cmpSecond,
                   cmpResult >>

repoVars == << tempContractsCache, permanentContractsCache, cachedDSMPrefixes, initPc,
               attempts, block, returned, initAwaiting, fetches,
               cacheAtStart, failedStep, getterResult >>

vars == << guardianVars, repoVars >>

\* addresses the locator may answer with
Addrs == {"A1", "A2"}

\* an absent cache entry (undefined)
NoAddr == "none"

\* an absent prefix (undefined)
NoPrefix == << >>

TempKeys == {"catalist", "dsm", "stakingRouter"}

PrefixKinds == {"attest", "pause"}

\* callers of the prefix reads other than the initialization; a caller makes
\* its next read after the last one settled
ExtCallers == {"signer"}

\* lines 25-32: the field initialisers
EmptyTemp == [k \in TempKeys |-> NoAddr]

EmptyPermanent == [k \in {"deposit"} |-> NoAddr]

EmptyPrefixes == [k \in PrefixKinds |-> NoPrefix]

RepoInit ==
    /\ tempContractsCache = EmptyTemp
    /\ permanentContractsCache = EmptyPermanent
    /\ cachedDSMPrefixes = EmptyPrefixes
    /\ initPc = "idle"
    /\ attempts = 0
    /\ block = 0
    /\ returned = 0
    /\ initAwaiting = {}
    /\ fetches = {}
    /\ cacheAtStart = EmptyTemp
    /\ failedStep = "none"
    /\ getterResult = << >>

InitLocal ==
    [ nextSigningKeys  |-> << >>,
      depositedPubKeys |-> {},
      intersections    |-> << >>,
      pauseMessageData |-> NoData,
      isDepositsPaused |-> FALSE,
      keysOpIndex      |-> 0,
      depositRoot      |-> "",
      blockNumber      |-> 0,
      previousState    |-> NULL,
      message          |-> NoData,
      path             |-> "none" ]

GuardianInit ==
    /\ isCheckingKeysIntersections = FALSE
    /\ lastContractsState = NULL
    /\ pc = [i \in Invocations |-> "notInvoked"]
    /\ awaiting = [i \in Invocations |-> {}]
    /\ local = [i \in Invocations |-> InitLocal]
    /\ calls = [i \in Invocations |-> {}]
    /\ published = [i \in Invocations |-> << >>]
    /\ pauseCall = [i \in Invocations |-> "none"]
    /\ logs = [i \in Invocations |-> {}]
    /\ outcome = [i \in Invocations |-> "none"]
    /\ cmpFirst = NULL
    /\ cmpSecond = NULL
    /\ cmpResult = << >>

Init == GuardianInit /\ RepoInit

(* --------------------------- pure functions --------------------------- *)

\* a filter that stops after the first queued key
getKeysIntersectionsFirstOnly(nextSigningKeys, depositedPubKeys) ==
    IF nextSigningKeys = << >> THEN << >>
    ELSE IF Head(nextSigningKeys) \in depositedPubKeys
         THEN << Head(nextSigningKeys) >>
         ELSE << >>

\* Array.prototype.filter over nextSigningKeys with depositedPubKeys.has
RECURSIVE getKeysIntersections(_, _)
getKeysIntersections(nextSigningKeys, depositedPubKeys) ==
    IF nextSigningKeys = << >> THEN << >>
    ELSE LET rest == getKeysIntersections(Tail(nextSigningKeys), depositedPubKeys)
         IN  IF Head(nextSigningKeys) \in depositedPubKeys
             THEN << Head(nextSigningKeys) >> \o rest
             ELSE rest

\* a comparison of the raw block numbers instead of their windows
isSameContractsStatesExactBlock(firstState, secondState) ==
    IF firstState = NULL \/ secondState = NULL THEN FALSE
    ELSE IF firstState.depositRoot # secondState.depositRoot THEN FALSE
    ELSE IF firstState.keysOpIndex # secondState.keysOpIndex THEN FALSE
    ELSE IF firstState.blockNumber # secondState.blockNumber THEN FALSE
    ELSE TRUE

\* a comparison that takes an absent state for an equal one
isSameContractsStatesNullEqual(firstState, secondState) ==
    IF firstState = NULL \/ secondState = NULL THEN TRUE
    ELSE IF firstState.depositRoot # secondState.depositRoot THEN FALSE
    ELSE IF firstState.keysOpIndex # secondState.keysOpIndex THEN FALSE
    ELSE IF (firstState.blockNumber \div GUARDIAN_DEPOSIT_RESIGNING_BLOCKS)
             # (secondState.blockNumber \div GUARDIAN_DEPOSIT_RESIGNING_BLOCKS) THEN FALSE
    ELSE TRUE

\* a comparison that leaves the re-signing window out
isSameContractsStatesNoWindow(firstState, secondState) ==
    IF firstState = NULL \/ secondState = NULL THEN FALSE
    ELSE IF firstState.depositRoot # secondState.depositRoot THEN FALSE
    ELSE IF firstState.keysOpIndex # secondState.keysOpIndex THEN FALSE
    ELSE TRUE

isSameContractsStates(firstState, secondState) ==
    IF firstState = NULL \/ secondState = NULL THEN FALSE
    ELSE IF firstState.depositRoot # secondState.depositRoot THEN FALSE
    ELSE IF firstState.keysOpIndex # secondState.keysOpIndex THEN FALSE
    ELSE IF (firstState.blockNumber \div GUARDIAN_DEPOSIT_RESIGNING_BLOCKS)
             # (secondState.blockNumber \div GUARDIAN_DEPOSIT_RESIGNING_BLOCKS) THEN FALSE
    ELSE TRUE

\* fixed chain-id lookup table; an unknown chain id throws
getMessageTopicPrefix(chainId) ==
    IF chainId = 1 THEN "defender"
    ELSE "throw"

\* `${prefix}-${topic}`
TopicName(prefix, topic) == << prefix, "-", topic >>

(* ------------------------- handler fragments -------------------------- *)

\* an entry test that never drops
EntryGuardOff == FALSE

\* line 56: the entry test of the single-flight flag
EntryGuard == isCheckingKeysIntersections

\* the entry test placed inside the try block: finally runs for a dropped invocation
FlagAfterDropCleared == FALSE

\* a dropped invocation that flips the flag
FlagAfterDropToggled == ~isCheckingKeysIntersections

\* line 56: a dropped invocation returns before the try block, so the
\* finally clause does not run for it
FlagAfterDrop == isCheckingKeysIntersections

\* the flag released at the end of the try block instead of in finally
FlagReleasedOnSuccessOnly(out) == out = "error"

\* lines 84-86: the finally clause
FlagAfterFinally(out) == FALSE

\* a catch clause that rethrows
CatchOutcomeRethrow == "thrown"

\* lines 82-83: the catch clause logs the error and swallows it
CatchOutcome == "error"

\* the invocation settles: locals are gone, the finally clause has run
EndCycle(i, out, newLogs) ==
    /\ pc' = [pc EXCEPT ![i] = "done"]
    /\ awaiting' = [awaiting EXCEPT ![i] = {}]
    /\ local' = [local EXCEPT ![i] = InitLocal]
    /\ outcome' = [outcome EXCEPT ![i] = out]
    /\ logs' = [logs EXCEPT ![i] = @ \cup newLogs]
    /\ isCheckingKeysIntersections' = FlagAfterFinally(out)

\* an exception inside the try block
Throw(i, cause) ==
    EndCycle(i, CatchOutcome, IF CatchOutcome = "error" THEN {<< "error", cause >>} ELSE {})

(* ------------------------------ actions ------------------------------- *)

\* provider 'block' event -> checkKeysIntersections(), up to the first await
checkKeysIntersections(i) ==
    /\ pc[i] = "notInvoked"
    /\ \A j \in Invocations : j < i => pc[j] # "notInvoked"
    /\ IF EntryGuard
       THEN /\ pc' = [pc EXCEPT ![i] = "done"]
            /\ outcome' = [outcome EXCEPT ![i] = "dropped"]
            /\ isCheckingKeysIntersections' = FlagAfterDrop
            /\ UNCHANGED << awaiting, calls >>
       ELSE /\ isCheckingKeysIntersections' = TRUE
            /\ pc' = [pc EXCEPT ![i] = "fetchKeys"]
            /\ calls' = [calls EXCEPT ![i] = @ \cup {"getNextSigningKeys", "getAllDepositedPubKeys"}]
            /\ awaiting' = [awaiting EXCEPT ![i] = {"getNextSigningKeys", "getAllDepositedPubKeys"}]
            /\ UNCHANGED outcome
    /\ UNCHANGED << lastContractsState, local, published, pauseCall, logs, cmpVars, repoVars >>

resolveGetNextSigningKeys(i) ==
    /\ pc[i] = "fetchKeys"
    /\ "getNextSigningKeys" \in awaiting[i]
    /\ \E ks \in KeyLists :
          local' = [local EXCEPT ![i].nextSigningKeys = ks]
    /\ awaiting' = [awaiting EXCEPT ![i] = @ \ {"getNextSigningKeys"}]
    /\ UNCHANGED << isCheckingKeysIntersections, lastContractsState, pc, calls,
                    published, pauseCall, logs, outcome, cmpVars, repoVars >>

resolveGetAllDepositedPubKeys(i) ==
    /\ pc[i] = "fetchKeys"
    /\ "getAllDepositedPubKeys" \in awaiting[i]
    /\ \E ds \in KeySets :
          local' = [local EXCEPT ![i].depositedPubKeys = ds]
    /\ awaiting' = [awaiting EXCEPT ![i] = @ \ {"getAllDepositedPubKeys"}]
    /\ UNCHANGED << isCheckingKeysIntersections, lastContractsState, pc, calls,
                    published, pauseCall, logs, outcome, cmpVars, repoVars >>

\* any awaited collaborator promise rejects: catch, then finally
rejectCall(i) ==
    /\ pc[i] \notin {"notInvoked", "done"}
    /\ \E c \in awaiting[i] : Throw(i, c)
    /\ UNCHANGED << lastContractsState, calls, published, pauseCall, cmpVars, repoVars >>

\* lines 66-81: the continuation of the first Promise.all, and the synchronous
\* head of handleKeysIntersections (89-93) or of handleCorrectKeys (111-116)
checkKeysBranch(i) ==
    /\ pc[i] = "fetchKeys"
    /\ awaiting[i] = {}
    /\ LET intersections == getKeysIntersections(local[i].nextSigningKeys,
                                                 local[i].depositedPubKeys)
           isIntersectionsFound == Len(intersections) > 0
       IN  IF isIntersectionsFound
           THEN /\ logs' = [logs EXCEPT ![i] = @ \cup {<< "warn", "Already deposited keys found" >>}]
                /\ local' = [local EXCEPT ![i].nextSigningKeys = << >>,
                                          ![i].depositedPubKeys = {},
                                          ![i].intersections = intersections,
                                          ![i].path = "pause"]
                /\ pc' = [pc EXCEPT ![i] = "pauseFetch"]
                /\ calls' = [calls EXCEPT ![i] = @ \cup {"getPauseDepositData", "isDepositsPaused"}]
                /\ awaiting' = [awaiting EXCEPT ![i] = {"getPauseDepositData", "isDepositsPaused"}]
           ELSE /\ logs' = logs
                /\ local' = [local EXCEPT ![i].nextSigningKeys = << >>,
                                          ![i].depositedPubKeys = {},
                                          ![i].intersections = intersections,
                                          ![i].path = "attest"]
                /\ pc' = [pc EXCEPT ![i] = "attestFetch"]
                /\ calls' = [calls EXCEPT ![i] = @ \cup {"getKeysOpIndex", "getDepositRoot", "getBlockNumber"}]
                /\ awaiting' = [awaiting EXCEPT ![i] = {"getKeysOpIndex", "getDepositRoot", "getBlockNumber"}]
    /\ UNCHANGED << isCheckingKeysIntersections, lastContractsState, published,
                    pauseCall, outcome, cmpVars, repoVars >>

resolveGetPauseDepositData(i) ==
    /\ pc[i] = "pauseFetch"
    /\ "getPauseDepositData" \in awaiting[i]
    /\ \E d \in PauseDatas :
          local' = [local EXCEPT ![i].pauseMessageData = d]
    /\ awaiting' = [awaiting EXCEPT ![i] = @ \ {"getPauseDepositData"}]
    /\ UNCHANGED << isCheckingKeysIntersections, lastContractsState, pc, calls,
                    published, pauseCall, logs, outcome, cmpVars, repoVars >>

resolveIsDepositsPaused(i) ==
    /\ pc[i] = "pauseFetch"
    /\ "isDepositsPaused" \in awaiting[i]
    /\ \E b \in BOOLEAN :
          local' = [local EXCEPT ![i].isDepositsPaused = b]
    /\ awaiting' = [awaiting EXCEPT ![i] = @ \ {"isDepositsPaused"}]
    /\ UNCHANGED << isCheckingKeysIntersections, lastContractsState, pc, calls,
                    published, pauseCall, logs, outcome, cmpVars, repoVars >>

\* the already-paused test left out
AlreadyPausedIgnored(isDepositsPaused) == FALSE

\* line 95: the already-paused test
AlreadyPaused(isDepositsPaused) == isDepositsPaused

\* the pause call left out
pauseDepositsSkipped(blockNumber, signature) == "none"

\* line 103: securityService.pauseDeposits(blockNumber, signature), not awaited
pauseDeposits(blockNumber, signature) == "pending"

\* a pause path that forgets the stored snapshot
LastStateResetOnPause == NULL

\* lines 89-107: handleKeysIntersections never assigns this.lastContractsState
LastStateAfterPause == lastContractsState

\* lines 95-106: the continuation of handleKeysIntersections, up to the await in
\* sendMessage -> getMessageTopic (lines 164-165, 156-157)
handleKeysIntersections(i) ==
    /\ pc[i] = "pauseFetch"
    /\ awaiting[i] = {}
    /\ IF AlreadyPaused(local[i].isDepositsPaused)
       THEN /\ EndCycle(i, "alreadyPaused", {<< "warn", "Deposits are already paused" >>})
            /\ UNCHANGED << calls, pauseCall >>
       ELSE /\ pauseCall' = [pauseCall EXCEPT ![i] =
                                pauseDeposits(local[i].pauseMessageData.blockNumber,
                                              local[i].pauseMessageData.signature)]
            /\ logs' = [logs EXCEPT ![i] = @ \cup {<< "warn", "Suspicious case detected" >>}]
            /\ local' = [local EXCEPT ![i].message = local[i].pauseMessageData]
            /\ calls' = [calls EXCEPT ![i] = @ \cup
                            (IF pauseCall'[i] = "pending" THEN {"pauseDeposits"} ELSE {})
                            \cup {"getChainId"}]
            /\ awaiting' = [awaiting EXCEPT ![i] = {"getChainId"}]
            /\ pc' = [pc EXCEPT ![i] = "getMessageTopic"]
            /\ UNCHANGED << isCheckingKeysIntersections, outcome >>
    /\ lastContractsState' = LastStateAfterPause
    /\ UNCHANGED << published, cmpVars, repoVars >>

\* the un-awaited pauseDeposits promise settles; nothing of the cycle waits for it
resolvePauseDeposits(i) ==
    /\ pauseCall[i] = "pending"
    /\ \E r \in {"fulfilled", "rejected"} :
          pauseCall' = [pauseCall EXCEPT ![i] = r]
    /\ UNCHANGED << isCheckingKeysIntersections, lastContractsState, pc, awaiting,
                    local, calls, published, logs, outcome, cmpVars, repoVars >>

resolveGetKeysOpIndex(i) ==
    /\ pc[i] = "attestFetch"
    /\ "getKeysOpIndex" \in awaiting[i]
    /\ \E k \in OpIndexes :
          local' = [local EXCEPT ![i].keysOpIndex = k]
    /\ awaiting' = [awaiting EXCEPT ![i] = @ \ {"getKeysOpIndex"}]
    /\ UNCHANGED << isCheckingKeysIntersections, lastContractsState, pc, calls,
                    published, pauseCall, logs, outcome, cmpVars, repoVars >>

resolveGetDepositRoot(i) ==
    /\ pc[i] = "attestFetch"
    /\ "getDepositRoot" \in awaiting[i]
    /\ \E r \in Roots :
          local' = [local EXCEPT ![i].depositRoot = r]
    /\ awaiting' = [awaiting EXCEPT ![i] = @ \ {"getDepositRoot"}]
    /\ UNCHANGED << isCheckingKeysIntersections, lastContractsState, pc, calls,
                    published, pauseCall, logs, outcome, cmpVars, repoVars >>

resolveGetBlockNumber(i) ==
    /\ pc[i] = "attestFetch"
    /\ "getBlockNumber" \in awaiting[i]
    /\ \E b \in BlockNumbers :
          local' = [local EXCEPT ![i].blockNumber = b]
    /\ awaiting' = [awaiting EXCEPT ![i] = @ \ {"getBlockNumber"}]
    /\ UNCHANGED << isCheckingKeysIntersections, lastContractsState, pc, calls,
                    published, pauseCall, logs, outcome, cmpVars, repoVars >>

\* the snapshot stored only when the state changed
StoredStateOnChange(currentContractState, previousState, isSameContractsState) ==
    IF isSameContractsState THEN previousState ELSE currentContractState

\* line 121: the snapshot stored as this.lastContractsState
StoredState(currentContractState, previousState, isSameContractsState) ==
    currentContractState

\* lines 118-133: the continuation of handleCorrectKeys
handleCorrectKeys(i) ==
    /\ pc[i] = "attestFetch"
    /\ awaiting[i] = {}
    /\ LET currentContractState ==
               [keysOpIndex |-> local[i].keysOpIndex,
                depositRoot |-> local[i].depositRoot,
                blockNumber |-> local[i].blockNumber]
           previousState == lastContractsState
           isSameContractsState == isSameContractsStates(currentContractState, previousState)
       IN  /\ lastContractsState' =
                  StoredState(currentContractState, previousState, isSameContractsState)
           /\ IF isSameContractsState
              THEN /\ EndCycle(i, "unchanged", {})
                   /\ UNCHANGED calls
              ELSE /\ local' = [local EXCEPT ![i].previousState = previousState]
                   /\ calls' = [calls EXCEPT ![i] = @ \cup {"getDepositData"}]
                   /\ awaiting' = [awaiting EXCEPT ![i] = {"getDepositData"}]
                   /\ pc' = [pc EXCEPT ![i] = "getDepositData"]
                   /\ UNCHANGED << isCheckingKeysIntersections, logs, outcome >>
    /\ UNCHANGED << published, pauseCall, cmpVars, repoVars >>

\* lines 130-136: getDepositData resolves; sendMessage starts (164-165, 156-157)
resolveGetDepositData(i) ==
    /\ pc[i] = "getDepositData"
    /\ "getDepositData" \in awaiting[i]
    /\ local' = [local EXCEPT ![i].message =
                    DepositDataFor(local[i].depositRoot, local[i].keysOpIndex)]
    /\ logs' = [logs EXCEPT ![i] = @ \cup {<< "log", "No problems found" >>}]
    /\ calls' = [calls EXCEPT ![i] = @ \cup {"getChainId"}]
    /\ awaiting' = [awaiting EXCEPT ![i] = {"getChainId"}]
    /\ pc' = [pc EXCEPT ![i] = "getMessageTopic"]
    /\ UNCHANGED << isCheckingKeysIntersections, lastContractsState, published,
                    pauseCall, outcome, cmpVars, repoVars >>

\* lines 157-166: getChainId resolves, the topic is derived and publish is called
getMessageTopic(i) ==
    /\ pc[i] = "getMessageTopic"
    /\ "getChainId" \in awaiting[i]
    /\ \E chainId \in ChainIds :
          LET prefix == getMessageTopicPrefix(chainId)
          IN  IF prefix = "throw"
              THEN /\ Throw(i, "getMessageTopicPrefix")
                   /\ UNCHANGED << calls, published >>
              ELSE /\ published' = [published EXCEPT ![i] =
                          Append(@, [topic   |-> TopicName(prefix, KAFKA_TOPIC),
                                     message |-> local[i].message])]
                   /\ calls' = [calls EXCEPT ![i] = @ \cup {"publish"}]
                   /\ awaiting' = [awaiting EXCEPT ![i] = {"publish"}]
                   /\ pc' = [pc EXCEPT ![i] = "publish"]
                   /\ UNCHANGED << isCheckingKeysIntersections, local, logs, outcome >>
    /\ UNCHANGED << lastContractsState, pauseCall, cmpVars, repoVars >>

\* line 166: publish resolves; sendMessage and the handler return; finally
resolvePublish(i) ==
    /\ pc[i] = "publish"
    /\ "publish" \in awaiting[i]
    /\ EndCycle(i, IF local[i].path = "pause" THEN "paused" ELSE "attested", {})
    /\ UNCHANGED << lastContractsState, calls, published, pauseCall, cmpVars, repoVars >>

Next ==
    \E i \in Invocations :
        \/ checkKeysIntersections(i)
        \/ resolveGetNextSigningKeys(i)
        \/ resolveGetAllDepositedPubKeys(i)
        \/ checkKeysBranch(i)
        \/ resolveGetPauseDepositData(i)
        \/ resolveIsDepositsPaused(i)
        \/ handleKeysIntersections(i)
        \/ resolvePauseDeposits(i)
        \/ resolveGetKeysOpIndex(i)
        \/ resolveGetDepositRoot(i)
        \/ resolveGetBlockNumber(i)
        \/ handleCorrectKeys(i)
        \/ resolveGetDepositData(i)
        \/ getMessageTopic(i)
        \/ resolvePublish(i)
        \/ rejectCall(i)

Spec == Init /\ [][Next]_vars

(* ---------------- isSameContractsStates called directly ---------------- *)

\* block numbers around the boundaries of the first three windows
CmpBlockNumbers ==
    BlockNumbers \cup {0, GUARDIAN_DEPOSIT_RESIGNING_BLOCKS - 1, GUARDIAN_DEPOSIT_RESIGNING_BLOCKS}

CmpStates ==
    {NULL} \cup [keysOpIndex : OpIndexes, depositRoot : Roots, blockNumber : CmpBlockNumbers]

InitSame ==
    /\ isCheckingKeysIntersections = FALSE
    /\ lastContractsState = NULL
    /\ pc = [i \in Invocations |-> "notInvoked"]
    /\ awaiting = [i \in Invocations |-> {}]
    /\ local = [i \in Invocations |-> InitLocal]
    /\ calls = [i \in Invocations |-> {}]
    /\ published = [i \in Invocations |-> << >>]
    /\ pauseCall = [i \in Invocations |-> "none"]
    /\ logs = [i \in Invocations |-> {}]
    /\ outcome = [i \in Invocations |-> "none"]
    /\ cmpFirst \in CmpStates
    /\ cmpSecond \in CmpStates
    /\ cmpResult = << >>
    /\ RepoInit

compareStates ==
    /\ cmpResult = << >>
    /\ cmpResult' = << isSameContractsStates(cmpFirst, cmpSecond) >>
    /\ UNCHANGED << isCheckingKeysIntersections, lastContractsState, pc, awaiting, local,
                    calls, published, pauseCall, logs, outcome, cmpFirst, cmpSecond,
                    repoVars >>

NextSame == compareStates

SpecSame == InitSame /\ [][NextSame]_vars

(* ------------------- repository.service.ts: the binding cache ------------------- *)

\* the value ATTEST_MESSAGE_PREFIX / PAUSE_MESSAGE_PREFIX of a DSM contract answers
PrefixOf(address, kind) == << address, kind >>

\* the value DEPOSIT_CONTRACT of a DSM contract answers
DepositOf(address) == IF address = "A1" THEN "D1" ELSE "D2"

\* an order that resolves the deposit contract before the DSM contract
StepAfterDepositFirst(step) ==
    CASE step = "catalist"      -> "deposit"
      [] step = "deposit"       -> "dsm"
      [] step = "dsm"           -> "stakingRouter"
      [] step = "stakingRouter" -> "done"

\* lines 38-42: the order of the awaited steps of initCachedContracts
StepAfter(step) ==
    CASE step = "catalist"      -> "dsm"
      [] step = "dsm"           -> "deposit"
      [] step = "deposit"       -> "stakingRouter"
      [] step = "stakingRouter" -> "done"

\* a deposit step that never finds the binding
DepositAlreadyBoundNever(permanent) == FALSE

\* line 169: the test that makes initCachedDepositContract return at once
DepositAlreadyBound(permanent) == permanent["deposit"] # NoAddr

\* a failure that drops the bindings of the cache
CacheDroppedOnFailure(cache) == [k \in DOMAIN cache |-> NoAddr]

\* lines 53-56: the catch block touches no cache
CacheAfterFailure(cache) == cache

\* lines 91-95: getFromCache
getFromCache(cache, abiKey) ==
    IF cache[abiKey] # NoAddr THEN cache[abiKey] ELSE "throw"

\* line 78: the deposit getter reads the permanent cache directly
DepositGetter(permanent) ==
    IF permanent["deposit"] # NoAddr THEN permanent["deposit"] ELSE "undefined"

\* no continuation of an `await` of a plain value is pending
NoTickPending == \A f \in fetches : f.pc # "tick"

\* line 156 replaces the prefix object: a read that already took the old object
\* as the target of its assignment writes into the old one
OrphanFetches(fs) ==
    {f \in fs : f.base # "current"}
    \cup {[f EXCEPT !.base = "orphan"] : f \in {g \in fs : g.base = "current" /\ g.owner[1] = "ext"}}

\* lines 200-216 up to the first await: the cache test and the read of the DSM binding
NewFetch(owner, kind, cache) ==
    [owner |-> owner, kind |-> kind, pc |-> "tick", contract |-> cache["dsm"], base |-> "none"]

\* the step of initCachedContracts entered after the step `from`, with the
\* synchronous part of that step: lines 169-170 and 221-222
Proceed(from, temp, permanent) ==
    LET n == StepAfter(from)
        target == IF n = "deposit" /\ DepositAlreadyBound(permanent)
                  THEN StepAfter("deposit") ELSE n
    IN  IF target = "done"
        THEN /\ initPc' = "returned"
             /\ returned' = block
             /\ UNCHANGED failedStep
        ELSE IF target = "deposit" /\ getFromCache(temp, "dsm") = "throw"
        THEN /\ initPc' = "sleep"
             /\ failedStep' = "deposit"
             /\ UNCHANGED returned
        ELSE /\ initPc' = target
             /\ UNCHANGED << returned, failedStep >>

\* lines 48-49: a call of initOrWaitCachedContracts
initOrWaitCachedContracts ==
    /\ initPc \in {"idle", "returned"}
    /\ attempts < MaxAttempts
    /\ initPc' = "getBlock"
    /\ attempts' = attempts + 1
    /\ block' = 0
    /\ returned' = 0
    /\ failedStep' = "none"
    /\ UNCHANGED << tempContractsCache, permanentContractsCache, cachedDSMPrefixes,
                    initAwaiting, fetches, cacheAtStart, getterResult, guardianVars >>

\* lines 49-51 and 38, 132: the block arrives, initCachedContracts starts
resolveGetBlock ==
    /\ initPc = "getBlock"
    /\ block' = attempts
    /\ cacheAtStart' = tempContractsCache
    /\ initPc' = "catalist"
    /\ UNCHANGED << tempContractsCache, permanentContractsCache, cachedDSMPrefixes, attempts,
                    returned, initAwaiting, fetches, failedStep, getterResult,
                    guardianVars >>

\* line 49: getBlock rejects; the await is before the try block, so the
\* rejection is the rejection of initOrWaitCachedContracts (also through the
\* `return await` of line 56)
rejectGetBlock ==
    /\ initPc = "getBlock"
    /\ initPc' = "rejected"
    /\ failedStep' = "getBlock"
    /\ UNCHANGED << tempContractsCache, permanentContractsCache, cachedDSMPrefixes, attempts,
                    block, returned, initAwaiting, fetches, cacheAtStart,
                    getterResult, guardianVars >>

\* lines 132-139: the catalist address arrives and is bound
resolveCatalistAddress ==
    /\ initPc = "catalist"
    /\ \E address \in Addrs :
          /\ tempContractsCache' = [tempContractsCache EXCEPT !["catalist"] = address]
          /\ Proceed("catalist", tempContractsCache', permanentContractsCache)
    /\ UNCHANGED << permanentContractsCache, cachedDSMPrefixes, attempts, block,
                    initAwaiting, fetches, cacheAtStart, getterResult,
                    guardianVars >>

\* lines 146-162: the DSM address arrives and is bound, the prefix object is
\* replaced and both prefix reads start
resolveDSMAddress ==
    /\ initPc = "dsm"
    /\ \E address \in Addrs :
          /\ tempContractsCache' = [tempContractsCache EXCEPT !["dsm"] = address]
          /\ fetches' = OrphanFetches(fetches)
                \cup {NewFetch(<< "init" >>, kind, tempContractsCache') : kind \in PrefixKinds}
    /\ cachedDSMPrefixes' = EmptyPrefixes
    /\ initAwaiting' = PrefixKinds
    /\ initPc' = "prefixes"
    /\ UNCHANGED << permanentContractsCache, attempts, block, returned, cacheAtStart, failedStep, getterResult, guardianVars >>

\* lines 203 and 213 after the await of the binding: the assignment takes the
\* current prefix object as its target and calls the accessor of the contract
\* read before the await
prefixTick(f) ==
    /\ f \in fetches
    /\ f.pc = "tick"
    /\ fetches' = (fetches \ {f}) \cup {[f EXCEPT !.pc = "rpc", !.base = "current"]}
    /\ UNCHANGED << tempContractsCache, permanentContractsCache, cachedDSMPrefixes, initPc,
                    attempts, block, returned, initAwaiting, cacheAtStart,
                    failedStep, getterResult, guardianVars >>

\* lines 203-204 and 213-215: the accessor answers and the prefix is stored
prefixResolve(f) ==
    /\ f \in fetches
    /\ f.pc = "rpc"
    /\ cachedDSMPrefixes' =
          IF f.base = "current"
          THEN [cachedDSMPrefixes EXCEPT ![f.kind] = PrefixOf(f.contract, f.kind)]
          ELSE cachedDSMPrefixes
    /\ fetches' = fetches \ {f}
    /\ initAwaiting' = IF f.owner = << "init" >> THEN initAwaiting \ {f.kind} ELSE initAwaiting
    /\ UNCHANGED << tempContractsCache, permanentContractsCache, initPc, attempts, block,
                    returned, cacheAtStart, failedStep, getterResult,
                    guardianVars >>

\* lines 203, 213: the accessor rejects; a read of the initialization rejects
\* the Promise.all of line 159 and with it the attempt (lines 53-55), the
\* other read stays in flight
prefixReject(f) ==
    /\ f \in fetches
    /\ f.pc = "rpc"
    /\ IF f.owner = << "init" >>
       THEN /\ fetches' = {IF g.owner = << "init" >>
                           THEN [g EXCEPT !.owner = << "abandoned" >>] ELSE g :
                           g \in fetches \ {f}}
            /\ initAwaiting' = {}
            /\ initPc' = "sleep"
            /\ failedStep' = "prefixes"
            /\ tempContractsCache' = CacheAfterFailure(tempContractsCache)
            /\ permanentContractsCache' = CacheAfterFailure(permanentContractsCache)
       ELSE /\ fetches' = fetches \ {f}
            /\ UNCHANGED << initAwaiting, initPc, failedStep, tempContractsCache,
                            permanentContractsCache >>
    /\ UNCHANGED << cachedDSMPrefixes, attempts, block, returned, cacheAtStart,
                    getterResult, guardianVars >>

\* lines 159-163 and 41: both prefix reads are done, the DSM step is complete
afterPrefixes ==
    /\ initPc = "prefixes"
    /\ initAwaiting = {}
    /\ Proceed("dsm", tempContractsCache, permanentContractsCache)
    /\ UNCHANGED << tempContractsCache, permanentContractsCache, cachedDSMPrefixes, attempts,
                    block, initAwaiting, fetches, cacheAtStart, getterResult,
                    guardianVars >>

\* lines 170-177 and 224: DEPOSIT_CONTRACT of the bound DSM contract answers
resolveDepositAddress ==
    /\ initPc = "deposit"
    /\ permanentContractsCache' =
          [permanentContractsCache EXCEPT !["deposit"] = DepositOf(tempContractsCache["dsm"])]
    /\ Proceed("deposit", tempContractsCache, permanentContractsCache')
    /\ UNCHANGED << tempContractsCache, cachedDSMPrefixes, attempts, block, initAwaiting,
                    fetches, cacheAtStart, getterResult, guardianVars >>

\* lines 186-194: the staking router address arrives and is bound
resolveStakingRouterAddress ==
    /\ initPc = "stakingRouter"
    /\ \E address \in Addrs :
          /\ tempContractsCache' = [tempContractsCache EXCEPT !["stakingRouter"] = address]
          /\ Proceed("stakingRouter", tempContractsCache', permanentContractsCache)
    /\ UNCHANGED << permanentContractsCache, cachedDSMPrefixes, attempts, block,
                    initAwaiting, fetches, cacheAtStart, getterResult,
                    guardianVars >>

\* lines 132, 146, 170, 185 and 53-55: the awaited address call of the running
\* step rejects, the catch block logs and sleeps
rejectAddressCall ==
    /\ initPc \in {"catalist", "dsm", "deposit", "stakingRouter"}
    /\ initPc' = "sleep"
    /\ failedStep' = initPc
    /\ tempContractsCache' = CacheAfterFailure(tempContractsCache)
    /\ permanentContractsCache' = CacheAfterFailure(permanentContractsCache)
    /\ UNCHANGED << cachedDSMPrefixes, attempts, block, returned, initAwaiting, fetches,
                    cacheAtStart, getterResult, guardianVars >>

\* lines 55-56 and 49: the delay is over (a timer runs only when no
\* continuation is pending), the recursive call fetches a new block
wakeUp ==
    /\ initPc = "sleep"
    /\ attempts < MaxAttempts
    /\ NoTickPending
    /\ initPc' = "getBlock"
    /\ attempts' = attempts + 1
    /\ block' = 0
    /\ failedStep' = "none"
    /\ UNCHANGED << tempContractsCache, permanentContractsCache, cachedDSMPrefixes,
                    returned, initAwaiting, fetches, cacheAtStart, getterResult,
                    guardianVars >>

\* lines 200-202 and 210-212: a prefix read up to its first await; it returns
\* the cached prefix, or throws when no DSM contract is bound, or goes on
getMessagePrefix(e, kind) ==
    /\ \A f \in fetches : f.owner # << "ext", e >>
    /\ fetches' =
          IF cachedDSMPrefixes[kind] # NoPrefix \/ getFromCache(tempContractsCache, "dsm") = "throw"
          THEN fetches
          ELSE fetches \cup {NewFetch(<< "ext", e >>, kind, tempContractsCache)}
    /\ UNCHANGED << tempContractsCache, permanentContractsCache, cachedDSMPrefixes, initPc,
                    attempts, block, returned, initAwaiting, cacheAtStart, failedStep,
                    getterResult, guardianVars >>

\* lines 200-205
getAttestMessagePrefix(e) == getMessagePrefix(e, "attest")

\* lines 210-216
getPauseMessagePrefix(e) == getMessagePrefix(e, "pause")

NextRepo ==
    \/ initOrWaitCachedContracts
    \/ resolveGetBlock
    \/ rejectGetBlock
    \/ resolveCatalistAddress
    \/ resolveDSMAddress
    \/ \E f \in fetches : prefixTick(f)
    \/ \E f \in fetches : prefixResolve(f)
    \/ \E f \in fetches : prefixReject(f)
    \/ afterPrefixes
    \/ resolveDepositAddress
    \/ resolveStakingRouterAddress
    \/ rejectAddressCall
    \/ wakeUp
    \/ \E e \in ExtCallers : getAttestMessagePrefix(e)
    \/ \E e \in ExtCallers : getPauseMessagePrefix(e)

SpecRepo == Init /\ [][NextRepo]_vars

(* ------------------- the getters, called on a given cache ------------------- *)

\* caches the initialization can leave: a step is bound only after the steps before it
BoundTemps ==
    {c \in [TempKeys -> Addrs \cup {NoAddr}] :
        /\ c["dsm"] # NoAddr => c["catalist"] # NoAddr
        /\ c["stakingRouter"] # NoAddr => c["dsm"] # NoAddr}

BoundPermanents(temp) ==
    {p \in [{"deposit"} -> {NoAddr} \cup {DepositOf(a) : a \in Addrs}] :
        /\ p["deposit"] # NoAddr => temp["dsm"] # NoAddr
        /\ temp["stakingRouter"] # NoAddr => p["deposit"] # NoAddr}

InitGetters ==
    /\ GuardianInit
    /\ tempContractsCache \in BoundTemps
    /\ permanentContractsCache \in BoundPermanents(tempContractsCache)
    /\ cachedDSMPrefixes = EmptyPrefixes
    /\ initPc = "idle"
    /\ attempts = 0
    /\ block = 0
    /\ returned = 0
    /\ initAwaiting = {}
    /\ fetches = {}
    /\ cacheAtStart = EmptyTemp
    /\ failedStep = "none"
    /\ getterResult = << >>

\* the result of a direct getter call is recorded
GetterCall(getter, result) ==
    /\ getterResult = << >>
    /\ getterResult' = << getter, result >>
    /\ UNCHANGED << tempContractsCache, permanentContractsCache, cachedDSMPrefixes, initPc,
                    attempts, block, returned, initAwaiting, fetches, cacheAtStart, failedStep, guardianVars >>

\* lines 63-65
getCachedCatalistContract ==
    GetterCall("catalist", getFromCache(tempContractsCache, "catalist"))

\* lines 70-72
getCachedDSMContract ==
    GetterCall("dsm", getFromCache(tempContractsCache, "dsm"))

\* lines 77-79
getCachedDepositContract ==
    GetterCall("deposit", DepositGetter(permanentContractsCache))

\* lines 84-86
getCachedStakingRouterContract ==
    GetterCall("stakingRouter", getFromCache(tempContractsCache, "stakingRouter"))

NextGetters ==
    \/ getCachedCatalistContract
    \/ getCachedDSMContract
    \/ getCachedDepositContract
    \/ getCachedStakingRouterContract

SpecGetters == InitGetters /\ [][NextGetters]_vars

(* ------------------------------ properties ----------------------------- *)

\* an invocation that has started its cycle and has not settled
InFlight(i) == pc[i] \notin {"notInvoked", "done"}

HasErrorLog(i) == \E e \in logs[i] : e[1] = "error"

AttestCalls == {"getKeysOpIndex", "getDepositRoot", "getBlockNumber", "getDepositData"}

KindsPublished(i) == {published[i][n].message.kind : n \in 1..Len(published[i])}

\* a settled invocation is never resumed
SettledStays(i) ==
    pc[i] = "done" =>
        /\ pc'[i] = "done"
        /\ calls'[i] = calls[i]
        /\ published'[i] = published[i]
        /\ outcome'[i] = outcome[i]
        /\ logs'[i] = logs[i]

\* C1: a block event that arrives while an earlier invocation is in flight is
\* dropped: that step issues no collaborator call and no publish for anyone and
\* changes neither the flag nor the stored state; the dropped invocation has
\* no call, publish, pause call or log line, and is never run afterwards.
C1_OverlappingEventDropped ==
    /\ [][\A i \in Invocations :
            (pc[i] = "notInvoked" /\ pc'[i] # "notInvoked"
               /\ \E j \in Invocations : j # i /\ InFlight(j))
            => /\ pc'[i] = "done"
               /\ outcome'[i] = "dropped"
               /\ calls' = calls
               /\ published' = published
               /\ pauseCall' = pauseCall
               /\ awaiting' = awaiting
               /\ lastContractsState' = lastContractsState
               /\ isCheckingKeysIntersections' = isCheckingKeysIntersections]_vars
    /\ [](\A i \in Invocations :
            outcome[i] = "dropped"
            => /\ pc[i] = "done"
               /\ calls[i] = {}
               /\ published[i] = << >>
               /\ pauseCall[i] = "none"
               /\ logs[i] = {})
    /\ [][\A i \in Invocations : SettledStays(i)]_vars

\* a second event was dropped while the first cycle waits for its publish,
\* and the first cycle is still waiting
C1_Witness ==
    \E i, j \in Invocations :
        /\ pc[i] = "publish"
        /\ outcome[j] = "dropped"

\* C2: at most one cycle is executing, and the flag is true exactly when one
\* is; a dropped event leaves the flag of the running cycle set.
C2_SingleFlight ==
    /\ Cardinality({i \in Invocations : InFlight(i)}) <= 1
    /\ isCheckingKeysIntersections <=> (\E i \in Invocations : InFlight(i))

C2_Witness ==
    \E i, j \in Invocations :
        /\ pc[i] = "pauseFetch"
        /\ awaiting[i] # {}
        /\ outcome[j] = "dropped"
        /\ isCheckingKeysIntersections

\* C3: whichever way a started cycle ends (pause publish, attest publish,
\* unchanged state, already paused, error), the step that ends it leaves the
\* flag false, and a block event that arrives when no cycle is in flight
\* starts a new cycle.
C3_GuardReleased ==
    /\ [][\A i \in Invocations :
            (InFlight(i) /\ pc'[i] = "done")
            => /\ outcome'[i] \in {"paused", "attested", "unchanged", "alreadyPaused", "error"}
               /\ isCheckingKeysIntersections' = FALSE]_vars
    /\ [][\A i \in Invocations :
            (pc[i] = "notInvoked" /\ pc'[i] # "notInvoked"
               /\ \A j \in Invocations : ~InFlight(j))
            => /\ pc'[i] = "fetchKeys"
               /\ isCheckingKeysIntersections' = TRUE]_vars

\* a cycle ended in an error and the next block event started a cycle
C3_Witness ==
    \E i, j \in Invocations :
        /\ i < j
        /\ outcome[i] = "error"
        /\ pc[j] = "fetchKeys"

\* C4: a failure inside a cycle (a rejected collaborator call, an unknown
\* chain id, a rejected publish) never escapes the handler: the invocation
\* settles normally with the error logged and the flag released.
C4_ErrorsAbsorbed ==
    /\ [](\A i \in Invocations :
            /\ outcome[i] # "thrown"
            /\ outcome[i] = "error" <=> HasErrorLog(i)
            /\ outcome[i] = "error" => pc[i] = "done")
    /\ [][\A i \in Invocations :
            (InFlight(i) /\ pc'[i] = "done"
               /\ outcome'[i] \notin {"paused", "attested", "unchanged", "alreadyPaused"})
            => /\ outcome'[i] = "error"
               /\ HasErrorLog(i)'
               /\ isCheckingKeysIntersections' = FALSE]_vars

\* one cycle failed at topic derivation and another at the publish
C4_Witness ==
    \E i, j \in Invocations :
        /\ outcome[i] = "error" /\ << "error", "getMessageTopicPrefix" >> \in logs[i]
        /\ outcome[j] = "error" /\ << "error", "publish" >> \in logs[j]

\* C5: when some queued key is deposited, the computed intersection is the
\* queued keys that are deposited, in queue order, and the cycle takes the
\* pause path; a cycle on the pause path never calls getKeysOpIndex,
\* getDepositRoot, getBlockNumber or getDepositData and publishes no attest
\* message.
C5_IntersectionTakesPausePath ==
    /\ [][\A i \in Invocations :
            (pc[i] = "fetchKeys" /\ awaiting[i] = {} /\ pc'[i] # "fetchKeys")
            => LET queued == local[i].nextSigningKeys
                   IsDeposited(k) == k \in local[i].depositedPubKeys
               IN  /\ local'[i].intersections = SelectSeq(queued, IsDeposited)
                   /\ (\E n \in 1..Len(queued) : IsDeposited(queued[n]))
                      => /\ pc'[i] = "pauseFetch"
                         /\ "getPauseDepositData" \in calls'[i]
                         /\ local'[i].intersections # << >>]_vars
    /\ [](\A i \in Invocations :
            "getPauseDepositData" \in calls[i]
            => /\ calls[i] \cap AttestCalls = {}
               /\ "attest" \notin KindsPublished(i)
               /\ pc[i] \in {"pauseFetch", "getMessageTopic", "publish", "done"})

\* the queue [k1,k2,k3] met the deposited set {k2}: pause path with [k2]
C5_Witness ==
    \E i \in Invocations :
        /\ pc[i] = "pauseFetch"
        /\ local[i].intersections = << "k2" >>
        /\ "getPauseDepositData" \in calls[i]

\* C6: once isDepositsPaused() has returned true in the pause path, the
\* cycle can only end: it issues no pauseDeposits call and publishes nothing,
\* and when the pause data has arrived too it returns normally, with no
\* error logged and the flag released.
C6_AlreadyPausedShortCircuit ==
    /\ [][\A i \in Invocations :
            (pc[i] = "pauseFetch" /\ "isDepositsPaused" \notin awaiting[i]
               /\ local[i].isDepositsPaused)
            => /\ pc'[i] \in {"pauseFetch", "done"}
               /\ pauseCall'[i] = "none"
               /\ "pauseDeposits" \notin calls'[i]
               /\ "publish" \notin calls'[i]
               /\ published'[i] = << >>
               /\ (awaiting[i] = {} /\ pc'[i] # pc[i])
                  => /\ outcome'[i] = "alreadyPaused"
                     /\ ~HasErrorLog(i)'
                     /\ isCheckingKeysIntersections' = FALSE]_vars
    /\ [](\A i \in Invocations :
            outcome[i] = "alreadyPaused"
            => /\ pc[i] = "done"
               /\ pauseCall[i] = "none"
               /\ calls[i] \cap {"pauseDeposits", "publish", "getChainId"} = {}
               /\ published[i] = << >>)
    /\ [][\A i \in Invocations :
            /\ SettledStays(i)
            /\ (pc[i] = "done" /\ pauseCall[i] = "none") => pauseCall'[i] = "none"]_vars

C6_Witness ==
    \E i \in Invocations :
        /\ outcome[i] = "alreadyPaused"
        /\ << "warn", "Deposits are already paused" >> \in logs[i]

\* the cycle is in the pause path, past the already-paused test
PastPauseTest(i) ==
    local[i].path = "pause" /\ pc[i] \in {"getMessageTopic", "publish"}

\* C7: in the pause path with deposits not paused, the cycle issues
\* pauseDeposits and goes on to sendMessage while that call is still pending;
\* the settling of the pause call, either way, changes nothing of the cycle
\* and the publish stays possible; the cycle ends as "paused" only from the
\* awaited publish, with exactly the pause data published, and a rejected
\* publish ends it as a logged error.
C7_PauseCallThenPublish ==
    /\ [][\A i \in Invocations :
            (pc[i] = "pauseFetch" /\ awaiting[i] = {} /\ ~local[i].isDepositsPaused
               /\ pc'[i] # pc[i])
            => /\ pauseCall'[i] = "pending"
               /\ "pauseDeposits" \in calls'[i]
               /\ pc'[i] = "getMessageTopic"
               /\ local'[i].message = local[i].pauseMessageData
               /\ published'[i] = << >>]_vars
    /\ [][\A i \in Invocations :
            (pauseCall[i] = "pending" /\ pauseCall'[i] # "pending")
            => /\ pauseCall'[i] \in {"fulfilled", "rejected"}
               /\ UNCHANGED << pc, awaiting, local, published, outcome, logs,
                               isCheckingKeysIntersections >>]_vars
    /\ [](\A i \in Invocations :
            PastPauseTest(i)
            => /\ pauseCall[i] \in {"pending", "fulfilled", "rejected"}
               /\ isCheckingKeysIntersections
               /\ pc[i] = "getMessageTopic"
                  => ENABLED (getMessageTopic(i) /\ pc'[i] = "publish")
               /\ pc[i] = "publish"
                  => /\ published[i] = << [topic   |-> TopicName("defender", KAFKA_TOPIC),
                                           message |-> local[i].pauseMessageData] >>
                     /\ ENABLED (resolvePublish(i) /\ outcome'[i] = "paused"))
    /\ [][\A i \in Invocations :
            (PastPauseTest(i) /\ pc'[i] = "done")
            => \/ /\ pc[i] = "publish"
                  /\ outcome'[i] = "paused"
                  /\ ~HasErrorLog(i)'
               \/ /\ outcome'[i] = "error"
                  /\ pc[i] = "publish" => << "error", "publish" >> \in logs'[i]]_vars
    /\ [](\A i \in Invocations :
            outcome[i] = "paused"
            => /\ Len(published[i]) = 1
               /\ published[i][1].message.kind = "pause"
               /\ "pauseDeposits" \in calls[i])

\* the pause call has already failed and the cycle is awaiting its publish
C7_Witness ==
    \E i \in Invocations :
        /\ pc[i] = "publish"
        /\ local[i].path = "pause"
        /\ pauseCall[i] = "rejected"

\* both block numbers lie in the same re-signing window
SameWindow(a, b) ==
    \E w \in 0..a :
        /\ w * GUARDIAN_DEPOSIT_RESIGNING_BLOCKS <= a
        /\ a < (w + 1) * GUARDIAN_DEPOSIT_RESIGNING_BLOCKS
        /\ w * GUARDIAN_DEPOSIT_RESIGNING_BLOCKS <= b
        /\ b < (w + 1) * GUARDIAN_DEPOSIT_RESIGNING_BLOCKS

\* the dedup rule as stated: both present, equal root, equal index, same window
SameStateRule(a, b) ==
    /\ a # NULL
    /\ b # NULL
    /\ a.depositRoot = b.depositRoot
    /\ a.keysOpIndex = b.keysOpIndex
    /\ SameWindow(a.blockNumber, b.blockNumber)

\* C8: isSameContractsStates(a, b) is true iff both states are present, the
\* roots are equal, the indexes are equal and the block numbers lie in the
\* same window; with a window of 100, blocks 150 and 199 are the same state
\* and 150 and 200 are not.
C8_SameStateRule ==
    cmpResult # << >>
    => /\ cmpResult[1] <=> SameStateRule(cmpFirst, cmpSecond)
       /\ (cmpFirst = NULL \/ cmpSecond = NULL) => ~cmpResult[1]
       /\ (/\ GUARDIAN_DEPOSIT_RESIGNING_BLOCKS = 100
           /\ cmpFirst # NULL /\ cmpSecond # NULL
           /\ cmpFirst.depositRoot = cmpSecond.depositRoot
           /\ cmpFirst.keysOpIndex = cmpSecond.keysOpIndex
           /\ cmpFirst.blockNumber = 150)
          => /\ cmpSecond.blockNumber = 199 => cmpResult[1]
             /\ cmpSecond.blockNumber = 200 => ~cmpResult[1]

C8_Witness ==
    /\ cmpResult = << TRUE >>
    /\ cmpFirst # NULL /\ cmpSecond # NULL
    /\ cmpFirst.blockNumber = 150
    /\ cmpSecond.blockNumber = 199

\* the first invocation to enter the attest path
FirstClean(i) ==
    /\ "getKeysOpIndex" \in calls[i]
    /\ \A j \in Invocations : j < i => "getKeysOpIndex" \notin calls[j]

\* C9: the first cycle that finds no intersection, when nothing in it fails,
\* ends having published exactly one message, the attest payload of
\* getDepositData for the fetched depositRoot and keysOpIndex, and no pause
\* message.
C9_FirstCleanCyclePublishes ==
    /\ [](\A i \in Invocations :
            FirstClean(i)
            => /\ "pause" \notin KindsPublished(i)
               /\ outcome[i] # "unchanged"
               /\ pc[i] = "publish"
                  => published[i] =
                        << [topic   |-> TopicName("defender", KAFKA_TOPIC),
                            message |-> DepositDataFor(local[i].depositRoot,
                                                       local[i].keysOpIndex)] >>
               /\ (pc[i] = "done" /\ ~HasErrorLog(i))
                  => /\ outcome[i] = "attested"
                     /\ "getDepositData" \in calls[i]
                     /\ Len(published[i]) = 1
                     /\ published[i][1].message.kind = "attest")
    /\ [][\A i \in Invocations : pc[i] = "publish" => published'[i] = published[i]]_vars

\* the first clean cycle came after a cycle on the pause path
C9_Witness ==
    \E i \in Invocations :
        /\ i > 1
        /\ FirstClean(i)
        /\ outcome[i] = "attested"

\* C10: when the three attest-path fetches have arrived, the continuation
\* stores exactly the fetched snapshot, whatever the comparison gives; if the
\* snapshot is the same state as the one stored before, the cycle ends there
\* without calling getDepositData or publish.
C10_SnapshotAlwaysStored ==
    /\ [][\A i \in Invocations :
            (pc[i] = "attestFetch" /\ awaiting[i] = {} /\ pc'[i] # pc[i])
            => LET fetched == [keysOpIndex |-> local[i].keysOpIndex,
                               depositRoot |-> local[i].depositRoot,
                               blockNumber |-> local[i].blockNumber]
               IN  /\ lastContractsState' = fetched
                   /\ SameStateRule(fetched, lastContractsState)
                      => /\ pc'[i] = "done"
                         /\ outcome'[i] = "unchanged"
                         /\ calls'[i] = calls[i]
                         /\ published'[i] = << >>]_vars
    /\ [](\A i \in Invocations :
            outcome[i] = "unchanged"
            => /\ calls[i] \cap {"getDepositData", "getChainId", "publish"} = {}
               /\ published[i] = << >>)

\* an unchanged cycle replaced the stored block number by a later one of the
\* same window
C10_Witness ==
    \E i \in Invocations :
        /\ outcome[i] = "unchanged"
        /\ lastContractsState # NULL
        /\ lastContractsState.blockNumber = 2 * GUARDIAN_DEPOSIT_RESIGNING_BLOCKS - 1

\* the cycle found the stored root and index unchanged in a later window
CrossedWindow(i) ==
    /\ local[i].path = "attest"
    /\ local[i].previousState # NULL
    /\ local[i].previousState.depositRoot = local[i].depositRoot
    /\ local[i].previousState.keysOpIndex = local[i].keysOpIndex
    /\ ~SameWindow(local[i].previousState.blockNumber, local[i].blockNumber)

\* C11: a clean cycle that fetches the depositRoot and keysOpIndex stored by
\* the previous clean cycle at a block number of another window goes on to
\* getDepositData, and unless something in it fails it ends having published
\* one attest message.
C11_WindowForcesReattest ==
    /\ [][\A i \in Invocations :
            (/\ pc[i] = "attestFetch" /\ awaiting[i] = {} /\ pc'[i] # pc[i]
             /\ lastContractsState # NULL
             /\ lastContractsState.depositRoot = local[i].depositRoot
             /\ lastContractsState.keysOpIndex = local[i].keysOpIndex
             /\ ~SameWindow(lastContractsState.blockNumber, local[i].blockNumber))
            => /\ pc'[i] = "getDepositData"
               /\ "getDepositData" \in calls'[i]
               /\ CrossedWindow(i)']_vars
    /\ [](\A i \in Invocations :
            CrossedWindow(i)
            => /\ pc[i] \in {"getDepositData", "getMessageTopic", "publish"}
               /\ pc[i] = "publish"
                  => published[i] =
                        << [topic   |-> TopicName("defender", KAFKA_TOPIC),
                            message |-> DepositDataFor(local[i].depositRoot,
                                                       local[i].keysOpIndex)] >>)
    /\ [][\A i \in Invocations :
            (CrossedWindow(i) /\ pc'[i] = "done" /\ ~HasErrorLog(i)')
            => /\ pc[i] = "publish"
               /\ outcome'[i] = "attested"
               /\ Len(published'[i]) = 1]_vars

\* the second clean cycle crossed the window boundary and awaits its publish
C11_Witness ==
    \E i \in Invocations :
        /\ CrossedWindow(i)
        /\ pc[i] = "publish"
        /\ local[i].previousState.blockNumber = 2 * GUARDIAN_DEPOSIT_RESIGNING_BLOCKS - 1
        /\ local[i].blockNumber = 2 * GUARDIAN_DEPOSIT_RESIGNING_BLOCKS

\* the clean cycle i ended in an error of getDepositData or of the publish
FailedAttest(i) ==
    /\ "getKeysOpIndex" \in calls[i]
    /\ outcome[i] = "error"
    /\ logs[i] \cap {<< "error", "getDepositData" >>, << "error", "publish" >>} # {}

\* C12: after a clean cycle whose getDepositData or publish failed, the next
\* clean cycle attempts the attest again, so it never ends as "unchanged"
\* (which is how a cycle ends when it skips getDepositData and the publish).
C12_FailedAttestRetried ==
    \A i, j \in Invocations :
        (/\ i < j
         /\ FailedAttest(i)
         /\ \A k \in Invocations : (i < k /\ k < j) => "getKeysOpIndex" \notin calls[k])
        => outcome[j] # "unchanged"

\* C19: nothing but the settling of one of its awaited calls moves a cycle
\* that is awaiting: as long as its awaited calls stay pending the cycle stays
\* where it is, the flag stays true and every block event is dropped.
C19_HangBlocksAllCycles ==
    /\ [][\A i \in Invocations :
            (InFlight(i) /\ awaiting[i] # {} /\ awaiting'[i] = awaiting[i])
            => /\ pc'[i] = pc[i]
               /\ isCheckingKeysIntersections' = TRUE
               /\ \A j \in Invocations :
                     (pc[j] = "notInvoked" /\ pc'[j] # "notInvoked")
                     => /\ outcome'[j] = "dropped"
                        /\ pc'[j] = "done"
                        /\ calls'[j] = {}]_vars
    /\ [](\A i \in Invocations :
            (InFlight(i) /\ awaiting[i] # {})
            => /\ isCheckingKeysIntersections
               /\ \A j \in Invocations : j # i => ~InFlight(j))

\* the first cycle still awaits its first fetches and every later block
\* event has been dropped
C19_Witness ==
    /\ pc[1] = "fetchKeys"
    /\ awaiting[1] = {"getNextSigningKeys", "getAllDepositedPubKeys"}
    /\ \A j \in Invocations : j > 1 => outcome[j] = "dropped"

\* C20: a cycle publishes at most one message, of the kind of its path; no
\* step of a cycle on the pause path changes the stored snapshot, which
\* changes only in the continuation of handleCorrectKeys, where the cycle
\* takes the value it compares against from it.
C20_OneMessagePauseKeepsSnapshot ==
    /\ [](\A i \in Invocations :
            /\ Len(published[i]) <= 1
            /\ "getPauseDepositData" \in calls[i] => KindsPublished(i) \subseteq {"pause"}
            /\ "getKeysOpIndex" \in calls[i] => KindsPublished(i) \subseteq {"attest"}
            /\ ~("getPauseDepositData" \in calls[i] /\ "getKeysOpIndex" \in calls[i]))
    /\ [][\A i \in Invocations :
            ("getPauseDepositData" \in calls'[i] /\ InFlight(i))
            => lastContractsState' = lastContractsState]_vars
    /\ [][lastContractsState' # lastContractsState
            => \E i \in Invocations :
                  /\ pc[i] = "attestFetch" /\ awaiting[i] = {} /\ pc'[i] # pc[i]
                  /\ pc'[i] # "done" => local'[i].previousState = lastContractsState]_vars

\* a clean cycle stored a snapshot, and a later cycle on the pause path
\* published its pause message with the snapshot still stored
C20_Witness ==
    \E i, j \in Invocations :
        /\ i < j
        /\ outcome[i] = "attested"
        /\ outcome[j] = "paused"
        /\ Len(published[j]) = 1
        /\ lastContractsState # NULL

\* C13: initOrWaitCachedContracts never completes with an error, whatever
\* fails within an attempt, the fetch of the block reference included.
C13_NeverCompletesWithError == initPc # "rejected"

\* the steps whose binding the attempt had not written when it failed at `failed`
StepsNotDone(failed) ==
    CASE failed = "catalist"      -> {"catalist", "dsm", "stakingRouter"}
      [] failed = "dsm"           -> {"dsm", "stakingRouter"}
      [] failed \in {"prefixes", "deposit", "stakingRouter"} -> {"stakingRouter"}
      [] OTHER                    -> {}

\* the step calls getDepositAddress: the call goes on to DEPOSIT_CONTRACT, or
\* throws at once because no DSM contract is bound
DepositAccessorCalled ==
    /\ initPc \notin {"deposit", "sleep"}
    /\ \/ initPc' = "deposit"
       \/ initPc' = "sleep" /\ failedStep' = "deposit"

\* C14: in every attempt the deposit-address accessor is called only with a
\* DSM binding (and both prefixes) in the cache, and the awaited steps follow
\* each other in the order catalist, DSM address, prefixes, deposit, staking
\* router, each entered only from the completed step before it.
C14_OrderedInitialization ==
    /\ [][DepositAccessorCalled
            => /\ initPc = "prefixes"
               /\ initPc' = "deposit"
               /\ tempContractsCache["dsm"] # NoAddr
               /\ \A kind \in PrefixKinds : cachedDSMPrefixes[kind] # NoPrefix
               /\ initAwaiting = {}]_vars
    /\ [][initPc' # initPc
            => /\ initPc' = "catalist" => initPc = "getBlock"
               /\ initPc' = "dsm" => (initPc = "catalist" /\ tempContractsCache'["catalist"] # NoAddr)
               /\ initPc' = "prefixes" => (initPc = "dsm" /\ tempContractsCache'["dsm"] # NoAddr)
               /\ initPc' = "stakingRouter"
                    => /\ initPc \in {"prefixes", "deposit"}
                       /\ permanentContractsCache'["deposit"] # NoAddr
               /\ initPc' = "returned"
                    => /\ initPc = "stakingRouter"
                       /\ \A k \in TempKeys : tempContractsCache'[k] # NoAddr
                       /\ permanentContractsCache'["deposit"] # NoAddr]_vars

\* a retried attempt has called the deposit-address accessor
C14_Witness ==
    /\ attempts = 2
    /\ initPc = "deposit"
    /\ tempContractsCache["dsm"] # NoAddr

\* C15: once the deposit binding is set no step enters the deposit-address
\* accessor or changes the binding, also when the DSM binding is re-pointed;
\* the binding is written only by the deposit step that found it absent, and a
\* completed initialization has it.
C15_DepositResolvedOnce ==
    /\ [][permanentContractsCache["deposit"] # NoAddr
            => /\ permanentContractsCache' = permanentContractsCache
               /\ initPc' # "deposit"]_vars
    /\ [][permanentContractsCache' # permanentContractsCache
            => /\ permanentContractsCache["deposit"] = NoAddr
               /\ initPc = "deposit"
               /\ permanentContractsCache'["deposit"] = DepositOf(tempContractsCache["dsm"])]_vars
    /\ [](initPc = "returned" => permanentContractsCache["deposit"] # NoAddr)

\* a later initialization re-pointed the DSM binding and returned with the
\* deposit binding of the first one
C15_Witness ==
    /\ initPc = "returned"
    /\ tempContractsCache["dsm"] = "A2"
    /\ permanentContractsCache["deposit"] = DepositOf("A1")

\* C16: whenever no prefix read is in flight, every prefix in the cache is the
\* value of the DSM contract that is bound.
C16_PrefixesMatchBinding ==
    fetches = {}
    => \A kind \in PrefixKinds :
          cachedDSMPrefixes[kind] # NoPrefix
          => cachedDSMPrefixes[kind] = PrefixOf(tempContractsCache["dsm"], kind)

\* the getter's key has no binding
Unbound(key) ==
    IF key = "deposit" THEN permanentContractsCache["deposit"] = NoAddr
    ELSE tempContractsCache[key] = NoAddr

\* C17: a getter called for a key without a binding throws the not-found
\* error, the deposit getter like the others.
C17_UnboundGetterThrows ==
    (getterResult # << >> /\ Unbound(getterResult[1])) => getterResult[2] = "throw"

\* C18: the step at which an attempt fails changes no cache, the bindings stay
\* as they are while the attempt sleeps, and the bindings of the steps the
\* attempt had not completed are those the attempt started with.
C18_NoRollbackOnFailure ==
    /\ [][(initPc' = "sleep" /\ initPc # "sleep")
            => /\ tempContractsCache' = tempContractsCache
               /\ permanentContractsCache' = permanentContractsCache
               /\ cachedDSMPrefixes' = cachedDSMPrefixes]_vars
    /\ [][(initPc = "sleep" /\ initPc' = "sleep")
            => /\ tempContractsCache' = tempContractsCache
               /\ permanentContractsCache' = permanentContractsCache]_vars
    /\ [](initPc = "sleep"
            => \A k \in StepsNotDone(failedStep) : tempContractsCache[k] = cacheAtStart[k])

\* a later initialization replaced the DSM binding, then failed at the staking
\* router step: the new DSM binding and the old staking router binding are there
C18_Witness ==
    /\ initPc = "sleep"
    /\ failedStep = "stakingRouter"
    /\ cacheAtStart["dsm"] = "A1"
    /\ tempContractsCache["dsm"] = "A2"
    /\ tempContractsCache["stakingRouter"] # NoAddr
    /\ tempContractsCache["stakingRouter"] = cacheAtStart["stakingRouter"]

====
